---- MODULE Spec2Model ----
(***************************************************************************)
(* Finite-difference Hessian of gonum/diff/fd (hessian.go).                *)
(*                                                                         *)
(* One behaviour of the model is one call                                  *)
(*     Hessian(dst, f, x, settings)                                        *)
(* with GOMAXPROCS = procs.  The main goroutine, the phase-A (neighbour)   *)
(* workers and the phase-B (entry) workers are interleaved at their        *)
(* synchronisation points (channel send/receive/close, WaitGroup) and at   *)
(* the calls of f.                                                         *)
(*                                                                         *)
(* Arithmetic.  float64 is modelled as a finite-precision grid: a number   *)
(* is an integer count of grid units, + - * are exact on the grid and      *)
(* a quotient is rounded to the nearest grid value, ties to even, as an    *)
(* IEEE-754 division rounds to the nearest representable value.  A sink    *)
(* cell is a number or NaN.                                                *)
(***************************************************************************)
EXTENDS Integers, Sequences, FiniteSets, Bags, TLC

(* ------------------------------- bounds -------------------------------- *)
MaxN == 2          \* len(x) ranges over 0..MaxN
MaxProcs == 2      \* runtime.GOMAXPROCS(0) ranges over 1..MaxProcs

(* the amplitudes of the parity functions, in grid units *)
Amps == {1, 2}

(* the coordinates of x, in grid units *)
Coords == {0, 1}

(* Settings.Step, in grid units: a negative step, the zero value (replaced by
   the default) and a step of several grid units *)
Steps == {-1, 0, 3}

(* Central2nd.Step, the default step (fd package, not in hessian.go). *)
Central2ndStep == 1

(* Tolerance of the monkey-saddle test case (1e-4), in grid units. *)
MonkeyTol == 1

VARIABLES
    f,          \* the function argument
    settings,   \* *HessianSettings (nil is the zero value, hessian.go:30-32)
    procs,      \* runtime.GOMAXPROCS(0)
    x0,         \* the contents of x when Hessian was called
    dst0,       \* the sink argument when Hessian was called
    bufs,       \* the float64 slices by name: x, xcopy and one per worker
    dst,        \* the sink
    pc,         \* position of the goroutine that called Hessian
    step, origin, nWorkers,
    neigh,      \* neigh[k+1] is the source's neigh[k]
    i, j,       \* loop indices of the calling goroutine (0-based)
    neighJobs,  \* chan int of phase A
    jobs,       \* chan hessJob of phase B
    wg,         \* sync.WaitGroup counter
    neighWk,    \* the goroutines of hessian.go:98-106
    hessWk,     \* the goroutines of hessian.go:117-135
    sent,       \* bags of the jobs sent so far on neighJobs and on jobs
    calls,      \* bag of the calls of f made so far: [pt, buf]
    writes,     \* bag of the sink cells written by SetSym so far
    nwrites     \* bag of the indices of neigh assigned so far

vars == <<f, settings, procs, x0, dst0, bufs, dst, pc, step, origin, nWorkers,
          neigh, i, j, neighJobs, jobs, wg, neighWk, hessWk, sent, calls, writes,
          nwrites>>

(* ----------------------------- arithmetic ------------------------------ *)
Abs(a) == IF a < 0 THEN -a ELSE a

Min(a, b) == IF a < b THEN a ELSE b

(* a / b for b > 0, rounded to nearest, ties to even *)
QuoPos(a, b) ==
    LET q == a \div b
        r == a % b
    IN  IF 2 * r < b THEN q
        ELSE IF 2 * r > b THEN q + 1
        ELSE IF q % 2 = 0 THEN q ELSE q + 1

(* the float64 quotient a / b, b # 0 *)
Quo(a, b) == IF b > 0 THEN QuoPos(a, b) ELSE QuoPos(-a, -b)

(* ------------------------------- values -------------------------------- *)
Num(v) == [nan |-> FALSE, v |-> v]

NaN == [nan |-> TRUE, v |-> 0]

(* ------------------------------ functions ------------------------------ *)
RECURSIVE WeightedSum(_, _)
WeightedSum(pt, k) == IF k = 0 THEN 0 ELSE k * pt[k] + WeightedSum(pt, k - 1)

quadratic(pt) == pt[1] * pt[1]

saddle(pt) == pt[1] * pt[1] - pt[2] * pt[2]

monkeySaddle(pt) == pt[1] * pt[1] * pt[1] - 3 * pt[1] * pt[2] * pt[2]

(* a function that is not a polynomial, defined for every length of pt:
   amp where x1 + 2*x2 + 3*x3 + ... is odd, 0 where it is even *)
parity(amp, pt) == amp * (WeightedSum(pt, Len(pt)) % 2)

(* a function with a bounded domain: it returns x1 + 2*x2 + 3*x3 + ...
   where that is at most 2 and panics elsewhere *)
bounded(pt) == WeightedSum(pt, Len(pt))

(* the value f returns at pt; f is pure and deterministic *)
Eval(fn, pt) ==
    CASE fn.name = "quadratic" -> quadratic(pt)
      [] fn.name = "saddle" -> saddle(pt)
      [] fn.name = "monkeySaddle" -> monkeySaddle(pt)
      [] fn.name = "parity" -> parity(fn.amp, pt)
      [] fn.name = "bounded" -> bounded(pt)

(* the call f(pt) panics instead of returning *)
Panics(fn, pt) == fn.name = "bounded" /\ bounded(pt) > 2

Named(name) == [name |-> name, amp |-> 0]

(* the functions called on points of length n: the test functions at the
   dimension of their test case, the parity functions at every dimension *)
Funcs(n) ==
    {[name |-> "parity", amp |-> a] : a \in Amps}
        \cup (IF n = 1 THEN {Named("quadratic")} ELSE {})
        \cup (IF n = 2 THEN {Named("saddle"), Named("monkeySaddle")} ELSE {})

(* -------------------------------- sink --------------------------------- *)
Cells(n) == {c \in (0..(n - 1)) \X (0..(n - 1)) : c[1] <= c[2]}

NilSym == [isnil |-> TRUE, n |-> 0, cell |-> [c \in Cells(0) |-> NaN]]

(* mat64.NewSymDense(n, nil) *)
NewSymDense(n) == [isnil |-> FALSE, n |-> n, cell |-> [c \in Cells(n) |-> Num(0)]]

(* fillNaNSym applied to a sink of dimension n *)
fillNaNSym(n) == [isnil |-> FALSE, n |-> n, cell |-> [c \in Cells(n) |-> NaN]]

(* SetSym adding to the cell instead of storing into it *)
SetSymAdd(m, r, c, v) ==
    LET k == IF r <= c THEN <<r, c>> ELSE <<c, r>>
    IN  [m EXCEPT !.cell[k] = IF @.nan THEN NaN ELSE Num(@.v + v)]

(* m.SetSym(r, c, v): stores into the upper triangle *)
SetSym(m, r, c, v) ==
    [m EXCEPT !.cell[IF r <= c THEN <<r, c>> ELSE <<c, r>>] = Num(v)]

(* ------------------------------- slices -------------------------------- *)
(* names of the slices: the caller's x, Hessian's xcopy (hessian.go:48) and
   the xcopy of each worker (hessian.go:100, 119) *)
XBuf == <<"x", 0>>

XCopy == <<"xcopy", 0>>

NeighBuf(w) == <<"neigh", w>>

(* hessian.go:119 with one xcopy shared by all phase-B workers *)
HessBufShared(w) == <<"hess", 0>>

HessBuf(w) == <<"hess", w>>

Zeros(n) == [k \in 1..n |-> 0]

(* copy(b, x) *)
CopyX(h, b) == [h EXCEPT ![b] = h[XBuf]]

(* the perturbation applied to x itself instead of the copy *)
AddAtInPlace(h, b, k, d) == [h EXCEPT ![XBuf][k + 1] = @ + d]

(* b[k] += d, k 0-based *)
AddAt(h, b, k, d) == [h EXCEPT ![b][k + 1] = @ + d]

(* A worker's xcopy between two iterations of its range loop: the next read
   of it is preceded by copy(xcopy, x) (hessian.go:102, 121), so what the
   last iteration left in it is not kept. *)
Dead(h, b) == [h EXCEPT ![b] = Zeros(Len(h[b]))]

(* --------------------------- stencil formulas -------------------------- *)
(* hessian.go:75 with the two first differences added *)
serialDiagPlus(nb, org, fii, st) ==
    Quo(Quo(nb[1] - org, st) + Quo(org - fii, st), st)

(* hessian.go:75 *)
serialDiag(nb, org, fii, st) ==
    Quo(Quo(nb[1] - org, st) - Quo(org - fii, st), st)

(* hessian.go:81 with neigh[i] where neigh[j] belongs *)
serialOffSameNeigh(nb, org, fij, st) ==
    Quo(Quo(fij - nb[1], st) - Quo(nb[1] - org, st), st)

(* hessian.go:81; nb = <<neigh[i], neigh[j]>> *)
serialOff(nb, org, fij, st) ==
    Quo(Quo(fij - nb[2], st) - Quo(nb[1] - org, st), st)

(* hessian.go:130 *)
concurrentDiag(nb, org, fx, st) ==
    Quo(Quo(fx - org + nb[1] - org, st), st)

(* hessian.go:132 *)
concurrentOff(nb, org, fx, st) ==
    Quo(Quo(fx - nb[2] + org - nb[1], st), st)

(* ------------------------------- Hessian ------------------------------- *)
Points(n) == [1..n -> Coords]

Sinks(n) == {NilSym} \cup {fillNaNSym(d) : d \in 0..MaxN}

(* the settings a caller can pass; OriginValue is left at its zero value
   when OriginKnown is false *)
SettingsOf(fn, x) ==
    {[OriginKnown |-> TRUE, OriginValue |-> v, Step |-> s, Concurrent |-> c] :
        v \in {Eval(fn, x), Eval(fn, x) + 1}, s \in Steps, c \in BOOLEAN}
    \cup
    {[OriginKnown |-> FALSE, OriginValue |-> 0, Step |-> s, Concurrent |-> c] :
        s \in Steps, c \in BOOLEAN}

NoChan == [buf |-> <<>>, cap |-> 0, closed |-> FALSE]

Workers == 1..MaxProcs

NoNeighWorkers == [w \in Workers |-> [st |-> "none", job |-> 0]]

NoHessWorkers == [w \in Workers |-> [st |-> "none", job |-> [i |-> 0, j |-> 0]]]

Init ==
    /\ \E n \in 0..MaxN :
         /\ x0 \in Points(n)
         /\ f \in Funcs(n)
         /\ dst0 \in Sinks(n)
    /\ settings \in SettingsOf(f, x0)
    /\ procs \in 1..MaxProcs
    /\ bufs = [b \in {XBuf} |-> x0]
    /\ dst = dst0
    /\ pc = "Hessian"
    /\ step = 0
    /\ origin = 0
    /\ nWorkers = 0
    /\ neigh = <<>>
    /\ i = 0
    /\ j = 0
    /\ neighJobs = NoChan
    /\ jobs = NoChan
    /\ wg = 0
    /\ neighWk = NoNeighWorkers
    /\ hessWk = NoHessWorkers
    /\ sent = [neigh |-> EmptyBag, hess |-> EmptyBag]
    /\ calls = EmptyBag
    /\ writes = EmptyBag
    /\ nwrites = EmptyBag

(* n := len(x), hessian.go:22, 87 *)
n == Len(bufs[XBuf])

(* the call f(h[b]) is added to the history of calls; the history keeps the
   point and which slice it was (x, xcopy of Hessian, xcopy of a worker) *)
Called(h, b) == calls (+) SetToBag({[pt |-> h[b], buf |-> b[1]]})

Written(r, c) == writes (+) SetToBag({<<r, c>>})

(* the assignment neigh[k] = ... is added to the history *)
NeighWritten(k) == nwrites (+) SetToBag({k})

(* hessian.go:35 testing step <= 0 *)
ResolveStepNonPositive(s) == IF s <= 0 THEN Central2ndStep ELSE s

(* hessian.go:34-37 *)
ResolveStep(s) == IF s = 0 THEN Central2ndStep ELSE s

(* hessian.go:39 *)
expect(m) == m + (m * (m - 1)) \div 2

(* hessian.go:40-46 without the clip to expect *)
ResolveWorkersNoClip(conc, gomaxprocs, m) == IF conc THEN gomaxprocs ELSE 1

(* hessian.go:40-46 *)
ResolveWorkers(conc, gomaxprocs, m) ==
    IF conc THEN Min(gomaxprocs, expect(m)) ELSE 1

(* hessian.go:26 never reporting a mismatch *)
MismatchNever(m, len) == FALSE

(* hessian.go:26: dst.Symmetric() != n *)
Mismatch(m, len) == m.n # len

(* hessian.go:22-28 *)
HessianCheck ==
    /\ pc = "Hessian"
    /\ LET d == IF dst.isnil THEN NewSymDense(n) ELSE dst
       IN  /\ dst' = d
           /\ pc' = IF Mismatch(d, n) THEN "panic" ELSE "settings"
    /\ UNCHANGED <<sent, f, settings, procs, x0, dst0, bufs, step, origin, nWorkers,
                   neigh, i, j, neighJobs, jobs, wg, neighWk, hessWk, calls, writes,
                   nwrites>>

(* hessian.go:30-46 without the test of Concurrent at line 41 *)
HessianSetupAlwaysPool ==
    /\ pc = "settings"
    /\ step' = ResolveStep(settings.Step)
    /\ nWorkers' = Min(procs, expect(n))
    /\ pc' = "origin"
    /\ UNCHANGED <<sent, f, settings, procs, x0, dst0, bufs, dst, origin,
                   neigh, i, j, neighJobs, jobs, wg, neighWk, hessWk, calls, writes,
                   nwrites>>

(* hessian.go:30-46 *)
HessianSetup ==
    /\ pc = "settings"
    /\ step' = ResolveStep(settings.Step)
    /\ nWorkers' = ResolveWorkers(settings.Concurrent, procs, n)
    /\ pc' = "origin"
    /\ UNCHANGED <<sent, f, settings, procs, x0, dst0, bufs, dst, origin,
                   neigh, i, j, neighJobs, jobs, wg, neighWk, hessWk, calls, writes,
                   nwrites>>

(* hessian.go:50 with the test of OriginKnown inverted *)
OriginOfInverted(known, value, computed) == IF known THEN computed ELSE value

(* hessian.go:49-53: the origin, given what f returned when it was called *)
OriginOf(known, value, computed) == IF known THEN value ELSE computed

(* hessian.go:48-53 calling f(xcopy) whether or not the origin is known *)
HessianOriginAlways ==
    /\ pc = "origin"
    /\ bufs' = CopyX((XCopy :> Zeros(n)) @@ bufs, XCopy)
    /\ calls' = Called(bufs', XCopy)
    /\ origin' = OriginOf(settings.OriginKnown, settings.OriginValue,
                          Eval(f, bufs'[XCopy]))
    /\ pc' = "dispatch"
    /\ UNCHANGED <<sent, f, settings, procs, x0, dst0, dst, step, nWorkers,
                   neigh, i, j, neighJobs, jobs, wg, neighWk, hessWk, writes,
                   nwrites>>

(* hessian.go:48-53 *)
HessianOrigin ==
    /\ pc = "origin"
    /\ IF settings.OriginKnown
       THEN /\ bufs' = (XCopy :> Zeros(n)) @@ bufs
            /\ calls' = calls
       ELSE /\ bufs' = CopyX((XCopy :> Zeros(n)) @@ bufs, XCopy)
            /\ ~Panics(f, bufs'[XCopy])
            /\ calls' = Called(bufs', XCopy)
    /\ origin' = OriginOf(settings.OriginKnown, settings.OriginValue,
                          Eval(f, bufs'[XCopy]))
    /\ pc' = "dispatch"
    /\ UNCHANGED <<sent, f, settings, procs, x0, dst0, dst, step, nWorkers,
                   neigh, i, j, neighJobs, jobs, wg, neighWk, hessWk, writes,
                   nwrites>>

(* hessian.go:55-59 *)
HessianDispatch ==
    /\ pc = "dispatch"
    /\ pc' = IF nWorkers = 1 THEN "hessianSerial" ELSE "hessianConcurrent"
    /\ UNCHANGED <<sent, f, settings, procs, x0, dst0, bufs, dst, step, origin, nWorkers,
                   neigh, i, j, neighJobs, jobs, wg, neighWk, hessWk, calls, writes,
                   nwrites>>

(* hessian.go:60 *)
HessianReturn ==
    /\ pc = "return"
    /\ pc' = "done"
    /\ UNCHANGED <<sent, f, settings, procs, x0, dst0, bufs, dst, step, origin, nWorkers,
                   neigh, i, j, neighJobs, jobs, wg, neighWk, hessWk, calls, writes,
                   nwrites>>

(* ---------------------------- hessianSerial ---------------------------- *)
(* hessian.go:65 *)
SerialStart ==
    /\ pc = "hessianSerial"
    /\ neigh' = Zeros(n)
    /\ i' = 0
    /\ pc' = "sNeigh"
    /\ UNCHANGED <<sent, f, settings, procs, x0, dst0, bufs, dst, step, origin, nWorkers,
                   j, neighJobs, jobs, wg, neighWk, hessWk, calls, writes,
                   nwrites>>

(* hessian.go:66-70, one iteration *)
SerialNeigh ==
    /\ pc = "sNeigh"
    /\ i < Len(bufs[XCopy])
    /\ bufs' = AddAt(CopyX(bufs, XCopy), XCopy, i, step)
    /\ ~Panics(f, bufs'[XCopy])
    /\ neigh' = [neigh EXCEPT ![i + 1] = Eval(f, bufs'[XCopy])]
    /\ nwrites' = NeighWritten(i)
    /\ calls' = Called(bufs', XCopy)
    /\ i' = i + 1
    /\ UNCHANGED <<sent, f, settings, procs, x0, dst0, dst, pc, step, origin, nWorkers,
                   j, neighJobs, jobs, wg, neighWk, hessWk, writes>>

(* hessian.go:66, 71: the first loop ends, the second begins *)
SerialNeighDone ==
    /\ pc = "sNeigh"
    /\ i >= Len(bufs[XCopy])
    /\ i' = 0
    /\ pc' = "sDiag"
    /\ UNCHANGED <<sent, f, settings, procs, x0, dst0, bufs, dst, step, origin, nWorkers,
                   neigh, j, neighJobs, jobs, wg, neighWk, hessWk, calls, writes,
                   nwrites>>

(* hessian.go:71-76 *)
SerialDiag ==
    /\ pc = "sDiag"
    /\ i < Len(bufs[XCopy])
    /\ bufs' = AddAt(CopyX(bufs, XCopy), XCopy, i, -step)
    /\ ~Panics(f, bufs'[XCopy])
    /\ LET fii == Eval(f, bufs'[XCopy])
       IN  dst' = SetSym(dst, i, i, serialDiag(<<neigh[i + 1]>>, origin, fii, step))
    /\ calls' = Called(bufs', XCopy)
    /\ writes' = Written(i, i)
    /\ j' = i + 1
    /\ pc' = "sOff"
    /\ UNCHANGED <<sent, f, settings, procs, x0, dst0, step, origin, nWorkers,
                   neigh, i, neighJobs, jobs, wg, neighWk, hessWk,
                   nwrites>>

(* hessian.go:76-82, one iteration *)
SerialOff ==
    /\ pc = "sOff"
    /\ j < n
    /\ bufs' = AddAt(AddAt(CopyX(bufs, XCopy), XCopy, i, step), XCopy, j, step)
    /\ ~Panics(f, bufs'[XCopy])
    /\ LET fij == Eval(f, bufs'[XCopy])
       IN  dst' = SetSym(dst, i, j,
                         serialOff(<<neigh[i + 1], neigh[j + 1]>>, origin, fij, step))
    /\ calls' = Called(bufs', XCopy)
    /\ writes' = Written(i, j)
    /\ j' = j + 1
    /\ UNCHANGED <<sent, f, settings, procs, x0, dst0, pc, step, origin, nWorkers,
                   neigh, i, neighJobs, jobs, wg, neighWk, hessWk,
                   nwrites>>

(* hessian.go:76, 71: the inner loop ends, next i *)
SerialNextRow ==
    /\ pc = "sOff"
    /\ j >= n
    /\ i' = i + 1
    /\ pc' = "sDiag"
    /\ UNCHANGED <<sent, f, settings, procs, x0, dst0, bufs, dst, step, origin, nWorkers,
                   neigh, j, neighJobs, jobs, wg, neighWk, hessWk, calls, writes,
                   nwrites>>

(* hessian.go:71, 84 *)
SerialReturn ==
    /\ pc = "sDiag"
    /\ i >= Len(bufs[XCopy])
    /\ pc' = "return"
    /\ UNCHANGED <<sent, f, settings, procs, x0, dst0, bufs, dst, step, origin, nWorkers,
                   neigh, i, j, neighJobs, jobs, wg, neighWk, hessWk, calls, writes,
                   nwrites>>

(* -------------------------- hessianConcurrent -------------------------- *)
(* ch <- v, v := <-ch, close(ch).  A send is enabled while the buffer has
   room; a channel of capacity 0 is only made when there is no worker and
   nothing to send (n = 0). *)
Send(ch, v) == [ch EXCEPT !.buf = Append(@, v)]

Recv(ch) == [ch EXCEPT !.buf = Tail(@)]

(* a close that is forgotten *)
CloseNever(ch) == ch

Close(ch) == [ch EXCEPT !.closed = TRUE]

(* the process runs until the runtime ends it *)
Running == pc # "crash"

(* hessian.go:91-94 *)
neighWorkers == Min(nWorkers, n)

(* hessian.go:87-95 *)
ConcurrentStart ==
    /\ pc = "hessianConcurrent"
    /\ wg' = 0
    /\ neigh' = Zeros(n)
    /\ neighJobs' = [buf |-> <<>>, cap |-> neighWorkers, closed |-> FALSE]
    /\ i' = 0
    /\ pc' = "spawnNeigh"
    /\ UNCHANGED <<sent, f, settings, procs, x0, dst0, bufs, dst, step, origin, nWorkers,
                   j, jobs, neighWk, hessWk, calls, writes,
                   nwrites>>

(* hessian.go:96-100, one iteration: wg.Add(1); go func() {...}() *)
SpawnNeigh ==
    /\ pc = "spawnNeigh"
    /\ i < neighWorkers
    /\ wg' = wg + 1
    /\ neighWk' = [neighWk EXCEPT ![i + 1].st = "range"]
    /\ bufs' = (NeighBuf(i + 1) :> Zeros(n)) @@ bufs
    /\ i' = i + 1
    /\ UNCHANGED <<sent, f, settings, procs, x0, dst0, dst, pc, step, origin, nWorkers,
                   neigh, j, neighJobs, jobs, hessWk, calls, writes,
                   nwrites>>

(* hessian.go:96, 108: all phase-A workers are started *)
SpawnNeighDone ==
    /\ pc = "spawnNeigh"
    /\ i >= neighWorkers
    /\ i' = 0
    /\ pc' = "sendNeigh"
    /\ UNCHANGED <<sent, f, settings, procs, x0, dst0, bufs, dst, step, origin, nWorkers,
                   neigh, j, neighJobs, jobs, wg, neighWk, hessWk, calls, writes,
                   nwrites>>

(* hessian.go:108-110 sending the index 0 in every iteration *)
SendNeighFirst ==
    /\ pc = "sendNeigh"
    /\ i < Len(neigh)
    /\ Len(neighJobs.buf) < neighJobs.cap
    /\ neighJobs' = Send(neighJobs, 0)
    /\ sent' = [sent EXCEPT !.neigh = @ (+) SetToBag({0})]
    /\ i' = i + 1
    /\ UNCHANGED <<f, settings, procs, x0, dst0, bufs, dst, pc, step, origin, nWorkers,
                   neigh, j, jobs, wg, neighWk, hessWk, calls, writes,
                   nwrites>>

(* hessian.go:108-110, one iteration: neighJobs <- i *)
SendNeigh ==
    /\ pc = "sendNeigh"
    /\ i < Len(neigh)
    /\ Len(neighJobs.buf) < neighJobs.cap
    /\ neighJobs' = Send(neighJobs, i)
    /\ sent' = [sent EXCEPT !.neigh = @ (+) SetToBag({i})]
    /\ i' = i + 1
    /\ UNCHANGED <<f, settings, procs, x0, dst0, bufs, dst, pc, step, origin, nWorkers,
                   neigh, j, jobs, wg, neighWk, hessWk, calls, writes,
                   nwrites>>

(* hessian.go:111 *)
CloseNeigh ==
    /\ pc = "sendNeigh"
    /\ i >= Len(neigh)
    /\ neighJobs' = Close(neighJobs)
    /\ pc' = "waitNeigh"
    /\ UNCHANGED <<sent, f, settings, procs, x0, dst0, bufs, dst, step, origin, nWorkers,
                   neigh, i, j, jobs, wg, neighWk, hessWk, calls, writes,
                   nwrites>>

(* hessian.go:101-103: a phase-A worker receives a job and perturbs its copy *)
NeighRecv(w) ==
    /\ Running
    /\ neighWk[w].st = "range"
    /\ neighJobs.buf # <<>>
    /\ neighJobs' = Recv(neighJobs)
    /\ neighWk' = [neighWk EXCEPT ![w] = [st |-> "call", job |-> Head(neighJobs.buf)]]
    /\ bufs' = AddAt(CopyX(bufs, NeighBuf(w)), NeighBuf(w), Head(neighJobs.buf), step)
    /\ UNCHANGED <<sent, f, settings, procs, x0, dst0, dst, pc, step, origin, nWorkers,
                   neigh, i, j, jobs, wg, hessWk, calls, writes,
                   nwrites>>

(* hessian.go:104: neigh[job] = f(xcopy) *)
NeighCall(w) ==
    /\ Running
    /\ neighWk[w].st = "call"
    /\ ~Panics(f, bufs[NeighBuf(w)])
    /\ neigh' = [neigh EXCEPT ![neighWk[w].job + 1] = Eval(f, bufs[NeighBuf(w)])]
    /\ nwrites' = NeighWritten(neighWk[w].job)
    /\ calls' = Called(bufs, NeighBuf(w))
    /\ neighWk' = [neighWk EXCEPT ![w] = [st |-> "range", job |-> 0]]
    /\ bufs' = Dead(bufs, NeighBuf(w))
    /\ UNCHANGED <<sent, f, settings, procs, x0, dst0, dst, pc, step, origin, nWorkers,
                   i, j, neighJobs, jobs, wg, hessWk, writes>>

(* hessian.go:101, 99: the channel is closed and drained; wg.Done() *)
NeighExit(w) ==
    /\ Running
    /\ neighWk[w].st = "range"
    /\ neighJobs.buf = <<>>
    /\ neighJobs.closed
    /\ neighWk' = [neighWk EXCEPT ![w].st = "exited"]
    /\ wg' = wg - 1
    /\ UNCHANGED <<sent, f, settings, procs, x0, dst0, bufs, dst, pc, step, origin, nWorkers,
                   neigh, i, j, neighJobs, jobs, hessWk, calls, writes,
                   nwrites>>

(* hessian.go:112-114 without the wg.Wait() between the phases *)
WaitNeighNoBarrier ==
    /\ pc = "waitNeigh"
    /\ jobs' = [buf |-> <<>>, cap |-> nWorkers, closed |-> FALSE]
    /\ i' = 0
    /\ pc' = "spawnHess"
    /\ UNCHANGED <<sent, f, settings, procs, x0, dst0, bufs, dst, step, origin, nWorkers,
                   neigh, j, neighJobs, wg, neighWk, hessWk, calls, writes,
                   nwrites>>

(* hessian.go:112-114: wg.Wait() returns; jobs is made *)
WaitNeigh ==
    /\ pc = "waitNeigh"
    /\ wg = 0
    /\ jobs' = [buf |-> <<>>, cap |-> nWorkers, closed |-> FALSE]
    /\ i' = 0
    /\ pc' = "spawnHess"
    /\ UNCHANGED <<sent, f, settings, procs, x0, dst0, bufs, dst, step, origin, nWorkers,
                   neigh, j, neighJobs, wg, neighWk, hessWk, calls, writes,
                   nwrites>>

(* hessian.go:115-119, one iteration *)
SpawnHess ==
    /\ pc = "spawnHess"
    /\ i < nWorkers
    /\ wg' = wg + 1
    /\ hessWk' = [hessWk EXCEPT ![i + 1].st = "range"]
    /\ bufs' = (HessBuf(i + 1) :> Zeros(n)) @@ bufs
    /\ i' = i + 1
    /\ UNCHANGED <<sent, f, settings, procs, x0, dst0, dst, pc, step, origin, nWorkers,
                   neigh, j, neighJobs, jobs, neighWk, calls, writes,
                   nwrites>>

(* hessian.go:115, 137: all phase-B workers are started; hessianProducer *)
SpawnHessDone ==
    /\ pc = "spawnHess"
    /\ i >= nWorkers
    /\ i' = 0
    /\ j' = 0
    /\ pc' = "producerDiag"
    /\ UNCHANGED <<sent, f, settings, procs, x0, dst0, bufs, dst, step, origin, nWorkers,
                   neigh, neighJobs, jobs, wg, neighWk, hessWk, calls, writes,
                   nwrites>>

(* hessian.go:142-147 with the inner loop starting at j = i *)
ProducerDiagThenSame ==
    /\ pc = "producerDiag"
    /\ i < n
    /\ Len(jobs.buf) < jobs.cap
    /\ jobs' = Send(jobs, [i |-> i, j |-> i])
    /\ sent' = [sent EXCEPT !.hess = @ (+) SetToBag({[i |-> i, j |-> i]})]
    /\ j' = i
    /\ pc' = "producerOff"
    /\ UNCHANGED <<f, settings, procs, x0, dst0, bufs, dst, step, origin, nWorkers,
                   neigh, i, neighJobs, wg, neighWk, hessWk, calls, writes,
                   nwrites>>

(* hessian.go:142-146: jobs <- hessJob{i, i} *)
ProducerDiag ==
    /\ pc = "producerDiag"
    /\ i < n
    /\ Len(jobs.buf) < jobs.cap
    /\ jobs' = Send(jobs, [i |-> i, j |-> i])
    /\ sent' = [sent EXCEPT !.hess = @ (+) SetToBag({[i |-> i, j |-> i]})]
    /\ j' = i + 1
    /\ pc' = "producerOff"
    /\ UNCHANGED <<f, settings, procs, x0, dst0, bufs, dst, step, origin, nWorkers,
                   neigh, i, neighJobs, wg, neighWk, hessWk, calls, writes,
                   nwrites>>

(* hessian.go:147-152, one iteration: jobs <- hessJob{i, j} *)
ProducerOff ==
    /\ pc = "producerOff"
    /\ j < n
    /\ Len(jobs.buf) < jobs.cap
    /\ jobs' = Send(jobs, [i |-> i, j |-> j])
    /\ sent' = [sent EXCEPT !.hess = @ (+) SetToBag({[i |-> i, j |-> j]})]
    /\ j' = j + 1
    /\ UNCHANGED <<f, settings, procs, x0, dst0, bufs, dst, pc, step, origin, nWorkers,
                   neigh, i, neighJobs, wg, neighWk, hessWk, calls, writes,
                   nwrites>>

(* hessian.go:147, 142: the inner loop ends, next i *)
ProducerNextRow ==
    /\ pc = "producerOff"
    /\ j >= n
    /\ i' = i + 1
    /\ pc' = "producerDiag"
    /\ UNCHANGED <<sent, f, settings, procs, x0, dst0, bufs, dst, step, origin, nWorkers,
                   neigh, j, neighJobs, jobs, wg, neighWk, hessWk, calls, writes,
                   nwrites>>

(* hessian.go:154: close(jobs) *)
ProducerClose ==
    /\ pc = "producerDiag"
    /\ i >= n
    /\ jobs' = Close(jobs)
    /\ pc' = "waitHess"
    /\ UNCHANGED <<sent, f, settings, procs, x0, dst0, bufs, dst, step, origin, nWorkers,
                   neigh, i, j, neighJobs, wg, neighWk, hessWk, calls, writes,
                   nwrites>>

(* hessian.go:121-127 with the diagonal job moved by +step *)
HessPerturbForward(h, b, job, st) ==
    IF job.i = job.j
    THEN AddAt(CopyX(h, b), b, job.i, st)
    ELSE AddAt(AddAt(CopyX(h, b), b, job.i, st), b, job.j, st)

(* hessian.go:121-127: the perturbation of a phase-B job *)
HessPerturb(h, b, job, st) ==
    IF job.i = job.j
    THEN AddAt(CopyX(h, b), b, job.i, -st)
    ELSE AddAt(AddAt(CopyX(h, b), b, job.i, st), b, job.j, st)

(* hessian.go:129-133: the value a phase-B job stores *)
HessValue(job, nb, org, fx, st) ==
    IF job.i = job.j
    THEN concurrentDiag(<<nb[job.i + 1]>>, org, fx, st)
    ELSE concurrentOff(<<nb[job.i + 1], nb[job.j + 1]>>, org, fx, st)

(* hessian.go:120-127: a phase-B worker receives a job and perturbs its copy *)
HessRecv(w) ==
    /\ Running
    /\ hessWk[w].st = "range"
    /\ jobs.buf # <<>>
    /\ jobs' = Recv(jobs)
    /\ hessWk' = [hessWk EXCEPT ![w] = [st |-> "call", job |-> Head(jobs.buf)]]
    /\ bufs' = HessPerturb(bufs, HessBuf(w), Head(jobs.buf), step)
    /\ UNCHANGED <<sent, f, settings, procs, x0, dst0, dst, pc, step, origin, nWorkers,
                   neigh, i, j, neighJobs, wg, neighWk, calls, writes,
                   nwrites>>

(* hessian.go:128-133: fx := f(xcopy); dst.SetSym(...) *)
HessCall(w) ==
    /\ Running
    /\ hessWk[w].st = "call"
    /\ ~Panics(f, bufs[HessBuf(w)])
    /\ LET job == hessWk[w].job
           fx == Eval(f, bufs[HessBuf(w)])
       IN  /\ dst' = SetSym(dst, job.i, job.j, HessValue(job, neigh, origin, fx, step))
           /\ writes' = Written(job.i, job.j)
    /\ calls' = Called(bufs, HessBuf(w))
    /\ hessWk' = [hessWk EXCEPT ![w] = [st |-> "range", job |-> [i |-> 0, j |-> 0]]]
    /\ bufs' = Dead(bufs, HessBuf(w))
    /\ UNCHANGED <<sent, f, settings, procs, x0, dst0, pc, step, origin, nWorkers,
                   neigh, i, j, neighJobs, jobs, wg, neighWk,
                   nwrites>>

(* hessian.go:120, 118: the channel is closed and drained; wg.Done() *)
HessExit(w) ==
    /\ Running
    /\ hessWk[w].st = "range"
    /\ jobs.buf = <<>>
    /\ jobs.closed
    /\ hessWk' = [hessWk EXCEPT ![w].st = "exited"]
    /\ wg' = wg - 1
    /\ UNCHANGED <<sent, f, settings, procs, x0, dst0, bufs, dst, pc, step, origin, nWorkers,
                   neigh, i, j, neighJobs, jobs, neighWk, calls, writes,
                   nwrites>>

(* hessian.go:138-139 without the final wg.Wait() *)
WaitHessNoWait ==
    /\ pc = "waitHess"
    /\ pc' = "return"
    /\ UNCHANGED <<sent, f, settings, procs, x0, dst0, bufs, dst, step, origin, nWorkers,
                   neigh, i, j, neighJobs, jobs, wg, neighWk, hessWk, calls, writes,
                   nwrites>>

(* hessian.go:138-139: wg.Wait() returns *)
WaitHess ==
    /\ pc = "waitHess"
    /\ wg = 0
    /\ pc' = "return"
    /\ UNCHANGED <<sent, f, settings, procs, x0, dst0, bufs, dst, step, origin, nWorkers,
                   neigh, i, j, neighJobs, jobs, wg, neighWk, hessWk, calls, writes,
                   nwrites>>

Main ==
    \/ HessianCheck \/ HessianSetup \/ HessianOrigin \/ HessianDispatch
    \/ HessianReturn
    \/ SerialStart \/ SerialNeigh \/ SerialNeighDone \/ SerialDiag \/ SerialOff
    \/ SerialNextRow \/ SerialReturn
    \/ ConcurrentStart \/ SpawnNeigh \/ SpawnNeighDone \/ SendNeigh \/ CloseNeigh
    \/ WaitNeigh \/ SpawnHess \/ SpawnHessDone
    \/ ProducerDiag \/ ProducerOff \/ ProducerNextRow \/ ProducerClose \/ WaitHess

NeighWorker(w) == NeighRecv(w) \/ NeighCall(w) \/ NeighExit(w)

HessWorker(w) == HessRecv(w) \/ HessCall(w) \/ HessExit(w)

Next ==
    \/ Main
    \/ \E w \in Workers : NeighWorker(w)
    \/ \E w \in Workers : HessWorker(w)

Spec == Init /\ [][Next]_vars

(* ------------------------------ f panics ------------------------------- *)
(* hessian.go:52, 68, 74, 80: the calls of f in the goroutine that called
   Hessian, and the buffers as the call finds them *)
MainCalls ==
    \/ pc = "origin" /\ ~settings.OriginKnown
    \/ pc = "sNeigh" /\ i < Len(bufs[XCopy])
    \/ pc = "sDiag" /\ i < Len(bufs[XCopy])
    \/ pc = "sOff" /\ j < n

MainCallBufs ==
    CASE pc = "origin" -> CopyX((XCopy :> Zeros(n)) @@ bufs, XCopy)
      [] pc = "sNeigh" -> AddAt(CopyX(bufs, XCopy), XCopy, i, step)
      [] pc = "sDiag" -> AddAt(CopyX(bufs, XCopy), XCopy, i, -step)
      [] pc = "sOff" ->
            AddAt(AddAt(CopyX(bufs, XCopy), XCopy, i, step), XCopy, j, step)

(* f panics in the goroutine that called Hessian: nothing recovers, the
   panic unwinds Hessian and reaches its caller *)
MainPanic ==
    /\ MainCalls
    /\ Panics(f, MainCallBufs[XCopy])
    /\ bufs' = MainCallBufs
    /\ calls' = Called(bufs', XCopy)
    /\ pc' = "fpanic"
    /\ UNCHANGED <<sent, f, settings, procs, x0, dst0, dst, step, origin, nWorkers,
                   neigh, i, j, neighJobs, jobs, wg, neighWk, hessWk, writes,
                   nwrites>>

(* hessian.go:104, 99: f panics in a phase-A worker; the deferred wg.Done()
   runs, nothing recovers *)
NeighPanic(w) ==
    /\ Running
    /\ neighWk[w].st = "call"
    /\ Panics(f, bufs[NeighBuf(w)])
    /\ calls' = Called(bufs, NeighBuf(w))
    /\ neighWk' = [neighWk EXCEPT ![w] = [st |-> "panicked", job |-> 0]]
    /\ bufs' = Dead(bufs, NeighBuf(w))
    /\ wg' = wg - 1
    /\ UNCHANGED <<sent, f, settings, procs, x0, dst0, dst, pc, step, origin, nWorkers,
                   neigh, i, j, neighJobs, jobs, hessWk, writes, nwrites>>

(* hessian.go:128, 118: f panics in a phase-B worker; the deferred wg.Done()
   runs, nothing recovers *)
HessPanic(w) ==
    /\ Running
    /\ hessWk[w].st = "call"
    /\ Panics(f, bufs[HessBuf(w)])
    /\ calls' = Called(bufs, HessBuf(w))
    /\ hessWk' = [hessWk EXCEPT ![w] = [st |-> "panicked", job |-> [i |-> 0, j |-> 0]]]
    /\ bufs' = Dead(bufs, HessBuf(w))
    /\ wg' = wg - 1
    /\ UNCHANGED <<sent, f, settings, procs, x0, dst0, dst, pc, step, origin, nWorkers,
                   neigh, i, j, neighJobs, jobs, neighWk, writes, nwrites>>

(* a goroutine that panicked and was not recovered ends the process: the
   other goroutines stop wherever they are, the caller of Hessian included *)
Crash ==
    /\ Running
    /\ \E w \in Workers : neighWk[w].st = "panicked" \/ hessWk[w].st = "panicked"
    /\ pc' = "crash"
    /\ UNCHANGED <<sent, f, settings, procs, x0, dst0, bufs, dst, step, origin, nWorkers,
                   neigh, i, j, neighJobs, jobs, wg, neighWk, hessWk, calls, writes,
                   nwrites>>

(* the calls of Hessian with the function of bounded domain *)
PanicInit ==
    /\ \E m \in 1..MaxN :
         /\ x0 \in Points(m)
         /\ dst0 \in {NilSym, fillNaNSym(m)}
    /\ f = Named("bounded")
    /\ settings \in SettingsOf(f, x0)
    /\ procs \in 1..MaxProcs
    /\ bufs = [b \in {XBuf} |-> x0]
    /\ dst = dst0
    /\ pc = "Hessian"
    /\ step = 0
    /\ origin = 0
    /\ nWorkers = 0
    /\ neigh = <<>>
    /\ i = 0
    /\ j = 0
    /\ neighJobs = NoChan
    /\ jobs = NoChan
    /\ wg = 0
    /\ neighWk = NoNeighWorkers
    /\ hessWk = NoHessWorkers
    /\ sent = [neigh |-> EmptyBag, hess |-> EmptyBag]
    /\ calls = EmptyBag
    /\ writes = EmptyBag
    /\ nwrites = EmptyBag

PanicNext ==
    \/ Next
    \/ MainPanic
    \/ \E w \in Workers : NeighPanic(w)
    \/ \E w \in Workers : HessPanic(w)
    \/ Crash

PanicSpec == PanicInit /\ [][PanicNext]_vars

(* Termination does not depend on the numbers: the fair specification
   starts at the origin of the grid with the parity function of amplitude 1,
   and a known origin is f(x). *)
LiveInit ==
    /\ Init
    /\ \A k \in DOMAIN x0 : x0[k] = 0
    /\ f = [name |-> "parity", amp |-> 1]
    /\ settings.OriginKnown => settings.OriginValue = Eval(f, x0)

(* Every runnable goroutine is eventually scheduled and every call of f
   returns. *)
FairSpec ==
    /\ LiveInit
    /\ [][Next]_vars
    /\ WF_vars(Main)
    /\ \A w \in Workers : WF_vars(NeighWorker(w)) /\ WF_vars(HessWorker(w))

(* ------------------------------ properties ----------------------------- *)
Shift(x, k, d) == [x EXCEPT ![k + 1] = @ + d]

(* the value of cell c = <<r, c>> by the formulas of hessianSerial, from the
   values of f at the stencil points *)
SerialCell(fn, x, st, org, c) ==
    IF c[1] = c[2]
    THEN serialDiag(<<Eval(fn, Shift(x, c[1], st))>>, org,
                    Eval(fn, Shift(x, c[1], -st)), st)
    ELSE serialOff(<<Eval(fn, Shift(x, c[1], st)), Eval(fn, Shift(x, c[2], st))>>, org,
                   Eval(fn, Shift(Shift(x, c[1], st), c[2], st)), st)

(* the same by the formulas of the workers of hessianConcurrent *)
ConcurrentCell(fn, x, st, org, c) ==
    IF c[1] = c[2]
    THEN concurrentDiag(<<Eval(fn, Shift(x, c[1], st))>>, org,
                        Eval(fn, Shift(x, c[1], -st)), st)
    ELSE concurrentOff(<<Eval(fn, Shift(x, c[1], st)), Eval(fn, Shift(x, c[2], st))>>, org,
                       Eval(fn, Shift(Shift(x, c[1], st), c[2], st)), st)

(* the path Hessian dispatches to, hessian.go:55 *)
PathCell(fn, x, st, org, c) ==
    IF nWorkers = 1 THEN SerialCell(fn, x, st, org, c)
    ELSE ConcurrentCell(fn, x, st, org, c)

Returned == pc = "done"

Terminated == pc \in {"done", "panic"}

OriginIsFx == ~settings.OriginKnown \/ settings.OriginValue = Eval(f, x0)

NoWorkerStarted ==
    \A w \in Workers : neighWk[w].st = "none" /\ hessWk[w].st = "none"

AllWorkersExited ==
    \A w \in Workers : /\ neighWk[w].st \in {"none", "exited"}
                       /\ hessWk[w].st \in {"none", "exited"}

(* C1: when Hessian has returned from the concurrent path, every cell (i,j),
   i <= j, holds exactly the value the serial path computes for the same
   function, point, step and origin. *)
C1_ConcurrentEqualsSerial ==
    (Returned /\ nWorkers # 1) =>
        \A c \in Cells(Len(x0)) : dst.cell[c] = Num(SerialCell(f, x0, step, origin, c))

(* C2: a call with OriginKnown and OriginValue = f(x) and a call that
   computes the origin itself return the same cells: on either path each cell
   is the path's stencil value for the origin f(x). *)
C2_KnownOriginSameAsComputed ==
    (Returned /\ OriginIsFx) =>
        \A c \in Cells(Len(x0)) :
            dst.cell[c] = Num(PathCell(f, x0, step, Eval(f, x0), c))

C2_Witness ==
    /\ Returned
    /\ settings.OriginKnown
    /\ settings.OriginValue = Eval(f, x0)
    /\ settings.OriginValue # 0
    /\ Len(x0) = 2
    /\ nWorkers = 2

(* C3: whatever the sink held before the call (NaN in every cell, or a
   fresh allocation), after Hessian returns the sink has dimension n and every
   cell (i,j), i <= j, holds the value computed from f, x and the settings; no
   NaN survives. *)
C3_ReusedSinkOverwritten ==
    Returned =>
        /\ dst.n = Len(x0)
        /\ DOMAIN dst.cell = Cells(Len(x0))
        /\ \A c \in Cells(Len(x0)) :
               /\ ~dst.cell[c].nan
               /\ dst.cell[c].v = PathCell(f, x0, step, origin, c)

C3_Witness ==
    /\ Returned
    /\ ~dst0.isnil
    /\ Len(x0) = 2
    /\ \A c \in Cells(2) : dst0.cell[c].nan /\ dst.cell[c].v # 0

(* C4: a caller-supplied sink whose dimension differs from len(x) makes
   Hessian panic at once: f is never called, no worker is started and no cell
   of the sink is written. *)
C4_MismatchPanicsFirst ==
    (~dst0.isnil /\ dst0.n # Len(x0)) =>
        /\ pc \in {"Hessian", "panic"}
        /\ calls = EmptyBag
        /\ writes = EmptyBag
        /\ dst = dst0
        /\ NoWorkerStarted
        /\ wg = 0

C4_Witness == pc = "panic" /\ dst0.n = 1 /\ Len(x0) = 2

(* C5: in every state of a call the caller's x holds what it held when
   Hessian was called, and every call of f was made on a scratch copy, never
   on x. *)
C5_PointNeverMutated ==
    /\ bufs[XBuf] = x0
    /\ \A c \in BagToSet(calls) : c.buf \in {"xcopy", "neigh", "hess"}

C5_Witness ==
    /\ Returned
    /\ Len(x0) = 2
    /\ nWorkers = 2
    /\ step # 0
    /\ BagCardinality(calls) >= 5

(* C6: for f = x0^2 and n = 1 the returned Hessian is [[2]]; for
   f = x0^2 - x1^2 and n = 2 it is [[2,0],[0,-2]]; at every point and step,
   for a nil or a reused sink, a computed or a supplied origin f(x), on the
   serial and on the concurrent path. *)
C6_QuadraticAndSaddle ==
    (Returned /\ OriginIsFx) =>
        /\ (f.name = "quadratic" /\ Len(x0) = 1) => dst.cell[<<0, 0>>] = Num(2)
        /\ (f.name = "saddle" /\ Len(x0) = 2) =>
               /\ dst.cell[<<0, 0>>] = Num(2)
               /\ dst.cell[<<0, 1>>] = Num(0)
               /\ dst.cell[<<1, 1>>] = Num(-2)

C6_Witness ==
    /\ Returned
    /\ f.name = "saddle"
    /\ Len(x0) = 2
    /\ settings.OriginKnown
    /\ settings.OriginValue = Eval(f, x0)
    /\ ~dst0.isnil
    /\ nWorkers = 1
    /\ x0 = <<1, 0>>

Within(cell, want, tol) == ~cell.nan /\ Abs(cell.v - want) <= tol

(* C7 as claimed: for f = x0^3 - 3*x0*x1^2 at [a,b] every returned cell is
   within the tolerance of [[6a,-6b],[-6b,-6a]]. *)
C7_MonkeySaddleWithinTol ==
    (Returned /\ OriginIsFx /\ f.name = "monkeySaddle" /\ Len(x0) = 2) =>
        /\ Within(dst.cell[<<0, 0>>], 6 * x0[1], MonkeyTol)
        /\ Within(dst.cell[<<0, 1>>], -6 * x0[2], MonkeyTol)
        /\ Within(dst.cell[<<1, 1>>], -6 * x0[1], MonkeyTol)

(* C7: for f = x0^3 - 3*x0*x1^2 at [a,b] the returned diagonal cells are 6a
   and -6a and the off-diagonal cell is -6b - 3*step, on the serial and on the
   concurrent path: the mixed entry is off by 3*|step|. *)
C7_MonkeySaddleStencil ==
    (Returned /\ OriginIsFx /\ f.name = "monkeySaddle" /\ Len(x0) = 2) =>
        /\ dst.cell[<<0, 0>>] = Num(6 * x0[1])
        /\ dst.cell[<<0, 1>>] = Num(-6 * x0[2] - 3 * step)
        /\ dst.cell[<<1, 1>>] = Num(-6 * x0[1])

C7_Witness ==
    /\ Returned
    /\ OriginIsFx
    /\ f.name = "monkeySaddle"
    /\ x0 = <<1, 1>>
    /\ step = 3
    /\ nWorkers = 2
    /\ dst.cell[<<0, 1>>] = Num(-15)

(* C8: under fair scheduling every call terminates; each job queue is
   closed after exactly its job count was sent (n in phase A,
   n + n(n-1)/2 in phase B), and when Hessian returns every started worker
   has exited and both queues are drained. *)
C8_NoOperationBlocks ==
    /\ [](neighJobs.closed => BagCardinality(sent.neigh) = Len(x0))
    /\ [](jobs.closed => BagCardinality(sent.hess) = expect(Len(x0)))
    /\ [](Returned => /\ AllWorkersExited
                      /\ wg = 0
                      /\ neighJobs.buf = <<>>
                      /\ jobs.buf = <<>>)
    /\ <>Terminated

C8_Witness ==
    /\ Returned
    /\ Len(x0) = 2
    /\ nWorkers = 2
    /\ neighJobs.closed
    /\ jobs.closed
    /\ BagCardinality(sent.hess) = 3
    /\ \A w \in Workers : neighWk[w].st = "exited" /\ hessWk[w].st = "exited"

(* C9: for n = 0, Concurrent or not, no cell is written, no job is sent, no
   worker is started, f is called at most once and only at the unperturbed
   (empty) point, not at all when OriginKnown; the call returns a 0x0 sink. *)
C9_EmptyPoint ==
    /\ [](Len(x0) = 0 =>
            /\ writes = EmptyBag
            /\ sent.neigh = EmptyBag /\ sent.hess = EmptyBag
            /\ NoWorkerStarted
            /\ BagCardinality(calls) <= (IF settings.OriginKnown THEN 0 ELSE 1)
            /\ \A c \in BagToSet(calls) : c.pt = x0
            /\ Returned => (~dst.isnil /\ dst.n = 0 /\ DOMAIN dst.cell = {}))
    /\ []((Len(x0) = 0 /\ pc = "settings") => <>Returned)

C9_Witness ==
    /\ Returned
    /\ Len(x0) = 0
    /\ settings.Concurrent
    /\ procs = 2
    /\ ~settings.OriginKnown
    /\ BagCardinality(calls) = 1

(* C10 as claimed: the step in use is strictly positive and a negative
   Settings.Step never gets past the set-up. *)
C10_StepPositive ==
    /\ pc \notin {"Hessian", "settings", "panic"} => step > 0
    /\ settings.Step < 0 => pc \in {"Hessian", "settings", "panic"}

(* C10: a zero Settings.Step is replaced by Central2nd.Step; any other
   Settings.Step, negative ones included, is used as it is, and no step makes
   Hessian panic. *)
C10_StepResolved ==
    /\ pc \notin {"Hessian", "settings", "panic"} =>
           step = (IF settings.Step = 0 THEN Central2ndStep ELSE settings.Step)
    /\ pc = "panic" => dst0.n # Len(x0)

C10_Witness ==
    /\ Returned
    /\ settings.Step < 0
    /\ step < 0
    /\ Len(x0) = 2
    /\ BagCardinality(calls) >= 5

(* C11: when f panics inside a worker of the concurrent path, the failure
   reaches the caller only after every worker that was started has been
   drained and joined: at the moment of the failure no worker is still
   running and no call of f is in flight. *)
C11_FailureAfterJoin ==
    pc = "crash" =>
        \A w \in Workers :
            /\ neighWk[w].st \in {"none", "exited", "panicked"}
            /\ hessWk[w].st \in {"none", "exited", "panicked"}

(* the points of the stencil: x itself, x with one coordinate moved by step
   or by -step, x with two different coordinates moved by step *)
StencilPoints(x, st) ==
    {x} \cup {Shift(x, k, st) : k \in 0..(Len(x) - 1)}
        \cup {Shift(x, k, -st) : k \in 0..(Len(x) - 1)}
        \cup {Shift(Shift(x, c[1], st), c[2], st) :
                c \in {d \in Cells(Len(x)) : d[1] < d[2]}}

(* C12: on the serial and on the concurrent path the value written to cell
   (i,j), i <= j, is ((neigh[i]-origin)/step-(origin-fii)/step)/step for
   i = j and ((fij-neigh[j])/step-(neigh[i]-origin)/step)/step for i < j, and
   every buffer passed to f equals x except at the one or two perturbed
   coordinates. *)
C12_StencilValues ==
    /\ \A call \in BagToSet(calls) : call.pt \in StencilPoints(x0, step)
    /\ Returned =>
           \A c \in Cells(Len(x0)) :
               dst.cell[c] = Num(SerialCell(f, x0, step, origin, c))

(* the table of neighbour values when phase A is complete *)
FinalNeigh == [k \in 1..Len(x0) |-> Eval(f, Shift(x0, k - 1, step))]

PhaseBStarted ==
    \/ \E w \in Workers : hessWk[w].st # "none"
    \/ sent.hess # EmptyBag

(* C13: no phase-B worker is started, no entry job is sent or run and neigh
   is not read before all n phase-A jobs are complete and every phase-A
   worker has been joined: whenever phase B has started, the phase-A queue
   is closed and empty, every phase-A worker has exited, each neigh[k] has
   been assigned and neigh holds its n final values. *)
C13_PhaseBarrier ==
    PhaseBStarted =>
        /\ \A w \in Workers : neighWk[w].st \in {"none", "exited"}
        /\ neighJobs.closed
        /\ neighJobs.buf = <<>>
        /\ nwrites = SetToBag(0..(Len(x0) - 1))
        /\ neigh = FinalNeigh

C13_Witness ==
    /\ Len(x0) = 2
    /\ \E w \in Workers : hessWk[w].st = "call" /\ hessWk[w].job = [i |-> 0, j |-> 1]
    /\ neigh[1] # neigh[2]
    /\ \A w \in Workers : neighWk[w].st = "exited"

(* where the entry job of cell c is: how often it was sent, how often it
   waits in the queue, how many workers hold it, how often it was written *)
HessSent(c) == CopiesIn([i |-> c[1], j |-> c[2]], sent.hess)

HessQueued(c) ==
    Cardinality({k \in 1..Len(jobs.buf) : jobs.buf[k] = [i |-> c[1], j |-> c[2]]})

HessHeld(c) ==
    Cardinality({w \in Workers : /\ hessWk[w].st = "call"
                                 /\ hessWk[w].job = [i |-> c[1], j |-> c[2]]})

HessWritten(c) == CopiesIn(c, writes)

(* C14: on the concurrent path the producer sends every pair (i,j), i <= j,
   exactly once, n + n(n-1)/2 jobs in all, and each job is taken by exactly
   one worker: a job that was sent is in the queue, or held by one worker, or
   written, and never in two places; every upper-triangle cell is written
   exactly once and no cell with i > j is ever sent or written. *)
C14_EntryJobsExactlyOnce ==
    nWorkers # 1 =>
        /\ \A c \in Cells(Len(x0)) :
               LET s == HessSent(c)
               IN  s <= 1 /\ s = HessQueued(c) + HessHeld(c) + HessWritten(c)
        /\ \A job \in BagToSet(sent.hess) :
               0 <= job.i /\ job.i <= job.j /\ job.j < Len(x0)
        /\ \A c \in BagToSet(writes) : 0 <= c[1] /\ c[1] <= c[2] /\ c[2] < Len(x0)
        /\ Returned =>
               /\ BagCardinality(sent.hess) = expect(Len(x0))
               /\ \A c \in Cells(Len(x0)) : HessSent(c) = 1 /\ HessWritten(c) = 1

C14_Witness ==
    /\ Returned
    /\ nWorkers = 2
    /\ Len(x0) = 2
    /\ BagCardinality(sent.hess) = 3
    /\ writes = SetToBag(Cells(2))

(* where the neighbour job of index k is *)
NeighSent(k) == CopiesIn(k, sent.neigh)

NeighQueued(k) == Cardinality({q \in 1..Len(neighJobs.buf) : neighJobs.buf[q] = k})

NeighHeld(k) ==
    Cardinality({w \in Workers : neighWk[w].st = "call" /\ neighWk[w].job = k})

NeighAssigned(k) == CopiesIn(k, nwrites)

(* phase A is over: its queue is closed and its workers have exited *)
PhaseADone ==
    /\ neighJobs.closed
    /\ \A w \in Workers : neighWk[w].st \in {"none", "exited"}

NeighJobsOnce ==
    nWorkers # 1 =>
        /\ \A k \in 0..(Len(x0) - 1) :
               /\ NeighSent(k) <= 1
               /\ NeighSent(k) = NeighQueued(k) + NeighHeld(k) + NeighAssigned(k)
        /\ BagToSet(sent.neigh) \subseteq 0..(Len(x0) - 1)
        /\ BagToSet(nwrites) \subseteq 0..(Len(x0) - 1)
        /\ PhaseADone =>
               \A k \in 0..(Len(x0) - 1) : NeighSent(k) = 1 /\ NeighAssigned(k) = 1

NeighReadOnly == PhaseADone => (neigh' = neigh /\ nwrites' = nwrites)

(* C15: in phase A every index 0..n-1 is sent exactly once and taken by
   exactly one worker: a sent index is in the queue, or held by one worker,
   or assigned, never in two places; each neigh[k] is assigned exactly once;
   once phase A is over no step changes neigh. *)
C15_NeighJobsExactlyOnce == []NeighJobsOnce /\ [][NeighReadOnly]_vars

C15_Witness ==
    /\ PhaseADone
    /\ nWorkers = 2
    /\ Len(x0) = 2
    /\ nwrites = SetToBag({0, 1})
    /\ \E w \in Workers : hessWk[w].st = "call"
    /\ neigh[1] # 0

(* the sink the concurrent path returns, as a function of the arguments of
   Hessian alone: f, x and the settings *)
ConcurrentSink(fn, x, stg) ==
    [isnil |-> FALSE,
     n |-> Len(x),
     cell |-> [c \in Cells(Len(x)) |->
                 Num(ConcurrentCell(fn, x, ResolveStep(stg.Step),
                                    OriginOf(stg.OriginKnown, stg.OriginValue,
                                             Eval(fn, x)), c))]]

(* C16: the sink returned by the concurrent path is the same for every
   number of workers, every assignment of jobs to workers, every order in
   which the jobs are taken and every interleaving: it is determined by f, x
   and the settings. *)
C16_ConcurrentDeterministic ==
    (Returned /\ nWorkers # 1) => dst = ConcurrentSink(f, x0, settings)

C16_Witness ==
    /\ Returned
    /\ nWorkers = 2
    /\ Len(x0) = 2
    /\ dst.cell[<<0, 1>>] # Num(0)
    /\ dst.cell[<<0, 0>>] # dst.cell[<<1, 1>>]

(* the calls of f made on a slice of the given kind *)
CallsAt(buf) == {c \in BagToSet(calls) : c.buf = buf}

(* C17: the origin is computed at most once.  Before the origin step f has
   not been called and no worker has been started.  From then on, when
   OriginKnown is false f has been called at the unmodified point exactly
   once, by Hessian itself, and origin is the value it returned; when
   OriginKnown is true f is never called at the unmodified point and origin
   is OriginValue.  No worker calls f at the unmodified point. *)
C17_OriginOnce ==
    /\ pc \in {"Hessian", "settings", "origin", "panic"} =>
           calls = EmptyBag /\ NoWorkerStarted
    /\ pc \notin {"Hessian", "settings", "origin", "panic"} =>
           /\ origin = IF settings.OriginKnown THEN settings.OriginValue
                       ELSE Eval(f, x0)
           /\ CopiesIn([pt |-> x0, buf |-> "xcopy"], calls) =
                  IF settings.OriginKnown THEN 0 ELSE 1
    /\ CopiesIn([pt |-> x0, buf |-> "neigh"], calls) = 0
    /\ CopiesIn([pt |-> x0, buf |-> "hess"], calls) = 0

C17_Witness ==
    /\ Returned
    /\ ~settings.OriginKnown
    /\ nWorkers = 2
    /\ Len(x0) = 2
    /\ origin # 0
    /\ CopiesIn([pt |-> x0, buf |-> "xcopy"], calls) = 1
    /\ BagCardinality(calls) = 6

(* the workers of each phase that have been started *)
NeighStarted == Cardinality({w \in Workers : neighWk[w].st # "none"})

HessStarted == Cardinality({w \in Workers : hessWk[w].st # "none"})

(* the positions of hessianConcurrent after the go statements of phase A,
   and after those of phase B *)
AfterSpawnNeigh ==
    pc \in {"sendNeigh", "waitNeigh", "spawnHess", "producerDiag", "producerOff",
            "waitHess"}

AfterSpawnHess == pc \in {"producerDiag", "producerOff", "waitHess"}

(* C18: the worker count is 1 when Concurrent is false and
   min(GOMAXPROCS, n + n(n-1)/2) otherwise; hessianConcurrent starts
   min(workers, n) workers in phase A and as many workers as the worker count
   in phase B; in each phase the workers are at most the jobs of the phase (n
   and n + n(n-1)/2) and at least 1 when the phase has a job. *)
C18_WorkerCounts ==
    /\ pc \notin {"Hessian", "settings", "panic"} =>
           nWorkers = IF settings.Concurrent
                      THEN Min(procs, Len(x0) + (Len(x0) * (Len(x0) - 1)) \div 2)
                      ELSE 1
    /\ LET a == NeighStarted
       IN  /\ a <= Len(x0)
           /\ AfterSpawnNeigh =>
                  /\ a = Min(nWorkers, Len(x0))
                  /\ Len(x0) >= 1 => a >= 1
    /\ LET b == HessStarted
       IN  /\ b <= Len(x0) + (Len(x0) * (Len(x0) - 1)) \div 2
           /\ AfterSpawnHess =>
                  /\ b = nWorkers
                  /\ Len(x0) >= 1 => b >= 1

C18_Witness ==
    /\ pc = "waitHess"
    /\ Len(x0) = 2
    /\ procs = 2
    /\ NeighStarted = 2
    /\ HessStarted = 2

(* Hessian is returning or has returned *)
Returning == pc \in {"return", "done"}

PoolTerminated ==
    /\ AllWorkersExited
    /\ wg = 0
    /\ neighJobs.buf = <<>>
    /\ jobs.buf = <<>>

NothingAfterReturn ==
    Returning =>
        /\ dst' = dst
        /\ neigh' = neigh
        /\ calls' = calls
        /\ writes' = writes
        /\ nwrites' = nwrites
        /\ neighWk' = neighWk
        /\ hessWk' = hessWk

(* C19: Hessian returns the sink only after the whole pool has terminated:
   when the concurrent path returns every worker of both phases has exited,
   both queues are empty and no call of f is in flight, and after the return
   nothing calls f or writes to the sink or to neigh. *)
C19_ReturnAfterTermination ==
    /\ [](Returning => PoolTerminated)
    /\ [][NothingAfterReturn]_vars

C19_Witness ==
    /\ Returned
    /\ Len(x0) = 2
    /\ \A w \in Workers : neighWk[w].st = "exited" /\ hessWk[w].st = "exited"
    /\ BagCardinality(calls) = 6

(* how often f has been called at pt, on any slice *)
PointCalls(pt) ==
    CopiesIn([pt |-> pt, buf |-> "xcopy"], calls)
        + CopiesIn([pt |-> pt, buf |-> "neigh"], calls)
        + CopiesIn([pt |-> pt, buf |-> "hess"], calls)

(* C20: a call that returns has evaluated f n times for the neighbours and
   n + n(n-1)/2 times for the entries, 2n + n(n-1)/2 times in all, plus once
   at x unless OriginKnown; every stencil point was evaluated exactly once
   and nothing else was, so the serial and the concurrent path evaluate the
   same multiset of points. *)
C20_EvaluationCount ==
    Returned =>
        /\ BagCardinality(calls) =
               2 * Len(x0) + (Len(x0) * (Len(x0) - 1)) \div 2
                   + (IF settings.OriginKnown THEN 0 ELSE 1)
        /\ \A k \in 0..(Len(x0) - 1) : PointCalls(Shift(x0, k, step)) = 1
        /\ \A pt \in StencilPoints(x0, step) \ {x0} : PointCalls(pt) = 1
        /\ PointCalls(x0) = IF settings.OriginKnown THEN 0 ELSE 1
        /\ \A c \in BagToSet(calls) : c.pt \in StencilPoints(x0, step)

C20_Witness ==
    /\ Returned
    /\ nWorkers = 2
    /\ Len(x0) = 2
    /\ settings.OriginKnown
    /\ BagCardinality(calls) = 5
    /\ Cardinality(CallsAt("neigh")) = 2
    /\ Cardinality(CallsAt("hess")) = 3

====
